---- MODULE Spec2Model ----
(***************************************************************************)
(* Model of the follow / unfollow orchestration of the user service        *)
(* (src/src/controllers/userRelationshipsController.js) over the           *)
(* relational store of src/prisma/schema.prisma and the event publisher    *)
(* it calls (getUserServiceProducer / publishMessage).                     *)
(*                                                                         *)
(* One step of the model is one I/O effect (a statement executed by the    *)
(* store, a call answered by the broker) together with the JavaScript      *)
(* continuation that runs after it up to the next await.                   *)
(*                                                                         *)
(* The controller imports prisma, getUserServiceProducer, TOPICS and       *)
(* MESSAGE_TYPES only (lines 1-2).  The identifier invalidateCache used on *)
(* lines 67-70 and 170-173 has no binding in the module, so evaluating the *)
(* first element of the Promise.all array throws a ReferenceError inside   *)
(* the inner try block; control goes to the catch on line 89 / 187.  The   *)
(* statements after the call (the rest of the array and the domain event   *)
(* publish, lines 68-87 and 171-185) are therefore never executed and have *)
(* no action in this model.                                                *)
(***************************************************************************)
EXTENDS Integers, Sequences, FiniteSets, TLC

\* ----------------------------------------------------------------- bounds
MaxReq == 2          \* number of follow / unfollow requests issued
MaxClock == 1        \* largest value of the store clock (createdAt)

Slots == 1..MaxReq

MaxAttempts == 3     \* largest maxRetries passed to executeWithRetry
MaxDeliveries == 2   \* number of deliveries of USER_CREATED messages

Deliveries == 1..MaxDeliveries

\* ----------------------------------------------------------------- inputs
\* (req.user, req.params.id) of the requests issued.  req.user is {} when no
\* principal is attached; "u1" and "u2" are ids of User rows ("u4" is a
\* third row that issues no request), "u3" is an id without a row, "" is a
\* missing id.
FollowInputs ==
    {[user |-> {[userId |-> "u1"]}, id |-> "u2"],
     [user |-> {[userId |-> "u3"]}, id |-> "u2"],
     [user |-> {[userId |-> "u1"]}, id |-> "u3"],
     [user |-> {[userId |-> ""]},   id |-> "u2"],
     [user |-> {[userId |-> "u1"]}, id |-> ""],
     [user |-> {},                  id |-> "u2"]}

\* unfollow of a pair without an edge is the same path for any two ids; the
\* pair ("u1", "u2") takes it whenever the table has no such edge
UnfollowInputs ==
    {[user |-> {[userId |-> "u1"]}, id |-> "u2"],
     [user |-> {[userId |-> ""]},   id |-> "u2"],
     [user |-> {[userId |-> "u1"]}, id |-> ""],
     [user |-> {},                  id |-> "u2"]}

\* TOPICS of the shared kafka module as used by the controller
USER_FOLLOWED == "USER_FOLLOWED"
USER_UNFOLLOWED == "USER_UNFOLLOWED"
DEAD_LETTER_QUEUE == "DEAD_LETTER_QUEUE"

VARIABLES
    User,        \* table User: set of rows [id, authUserId]
    Follows,     \* table Follows: set of committed rows [followerId, followingId, createdAt]
    now,         \* store clock, source of createdAt @default(now())
    req,         \* per request slot: the handler's local variables and position
    res,         \* per request slot: the HTTP responses written, in order
    published,   \* per request slot: the messages the broker accepted from it, in order
    list,        \* the getFollowers / getFollowing request of the list client
    usr          \* the user requests: last response, and the USER_CREATED handlers

vars == <<User, Follows, now, req, res, published, list, usr>>

\* A request slot before the request arrives.  Besides req.user and the
\* handler's locals (followerId, followingId, follower, following, existingRelationship,
\* result, error) the record counts what the handler did: txCount calls of
\* prisma.$transaction, committed whether its transaction committed,
\* invalidateCalls evaluations of an invalidateCache call, invalidated the
\* keys the cache was asked to drop, dlqCount entries of the dead letter try
\* block, conflict whether its insert met a committed row with the same key;
\* quiet tells whether no other request was in flight when the request
\* arrived and snap is the Follows table it then found.
IdleReq ==
    [op |-> "none", user |-> {}, followerId |-> "", followingId |-> "",
     pc |-> "idle", k |-> 0, follower |-> {}, following |-> {}, existingRelationship |-> {},
     pending |-> {}, result |-> "none", error |-> "",
     txCount |-> 0, committed |-> FALSE, invalidateCalls |-> 0,
     invalidated |-> {}, dlqCount |-> 0, conflict |-> FALSE,
     snap |-> {}, quiet |-> TRUE]

\* model User / model Follows with the rows the scenarios start from
InitialUsers ==
    {[id |-> "u1", authUserId |-> "a1", username |-> "n1", bio |-> ""],
     [id |-> "u2", authUserId |-> "a2", username |-> "n2", bio |-> ""],
     [id |-> "u4", authUserId |-> "a4", username |-> "n4", bio |-> ""]}

InitialFollows ==
    {{},
     {[followerId |-> "u1", followingId |-> "u2", createdAt |-> 0]},
     {[followerId |-> "u1", followingId |-> "u4", createdAt |-> 0],
      [followerId |-> "u4", followingId |-> "u2", createdAt |-> 0]}}

\* The list client before its first request.  Besides the handler's locals
\* (op, id, page as parsed, skip, take, totalCount) and the response
\* written, the record keeps what the client has collected: pages holds the
\* rows of the pages 1, 2, ... it has fetched of one listing while no write
\* committed, and matching is the number of rows that matched when findMany
\* ran.
IdleList ==
    [op |-> "none", id |-> "", page |-> 0, skip |-> 0, take |-> 0,
     pc |-> "idle", totalCount |-> 0, matching |-> 0, response |-> <<>>,
     pages |-> <<>>]

\* No user request answered yet, no USER_CREATED message delivered.  res is
\* the last response of a user request together with the store calls the
\* request made; h holds, per delivery, the position of the handler, its
\* message, and the store calls it made.
IdleHandler ==
    [pc |-> "idle", message |-> {}, calls |-> <<>>, caught |-> "", thrown |-> ""]

\* executeWithRetry before its call
IdleRetry ==
    [pc |-> "idle", operation |-> <<>>, maxRetries |-> 0, delay |-> 0, attempt |-> 0,
     lastError |-> {}, calls |-> 0, waited |-> 0, returned |-> {}, thrown |-> {}]

IdleUsr ==
    [res |-> [op |-> "none", id |-> "", body |-> {}, code |-> "", status |-> 0,
             error |-> "", calls |-> <<>>],
     h |-> [d \in Deliveries |-> IdleHandler],
     retry |-> IdleRetry]

Init ==
    /\ User = InitialUsers
    /\ Follows \in InitialFollows
    /\ now = 0
    /\ req = [r \in Slots |-> IdleReq]
    /\ res = [r \in Slots |-> <<>>]
    /\ published = [r \in Slots |-> <<>>]
    /\ list = IdleList
    /\ usr = IdleUsr

\* ------------------------------------------------------------ store helpers
\* tx.user.findUnique({ where: { id } })
userFindUnique(id) == {u \in User : u.id = id}

\* tx.follows.findUnique({ where: { followerId_followingId } }): committed rows
followsFindUnique(a, b) ==
    {f \in Follows : f.followerId = a /\ f.followingId = b}

\* writes of other open transactions on the key (a,b), not yet committed
PendingOn(r, a, b, kind) ==
    {q \in Slots \ {r} :
        \E w \in req[q].pending :
            w.kind = kind /\ w.row.followerId = a /\ w.row.followingId = b}

Done(r) == req[r].pc = "done"

InFlight(r) == req[r].pc \notin {"idle", "done"}

\* ------------------------------------------------------ the request handlers
\* The 202 response held back until the background phase is over
AcceptedResponse_Deferred(followerId, followingId) == <<>>

\* lines 16-21 / 128-133: res.status(202).json({...}) written before the
\* background phase starts
AcceptedResponse(followerId, followingId) ==
    <<[status |-> 202,
       body |-> [status |-> "processing",
                 followerId |-> followerId,
                 followingId |-> followingId]]>>

\* A handler without the id check of lines 11-13 / 123-125: every request
\* that carries a principal is answered 202 and goes to the store
Receive_Unchecked(r, op, in) ==
    /\ req[r].pc = "idle"
    /\ \A q \in Slots : q < r => req[q].pc # "idle"
    /\ LET quiet == \A q \in Slots : ~InFlight(q)
           base == [req[r] EXCEPT !.op = op, !.user = in.user,
                                  !.followingId = in.id,
                                  !.snap = IF quiet THEN Follows ELSE {},
                                  !.quiet = quiet]
       IN
       IF in.user = {}
       THEN /\ req' = [req EXCEPT ![r] = [base EXCEPT !.pc = "done"]]
            /\ res' = [res EXCEPT ![r] =
                          <<[status |-> 500, body |-> [error |-> "Server error"]]>>]
       ELSE LET followerId == (CHOOSE p \in in.user : TRUE).userId
            IN
            /\ req' = [req EXCEPT ![r] =
                          [base EXCEPT !.followerId = followerId,
                                       !.txCount = 1,
                                       !.pc = "txBegin"]]
            /\ res' = [res EXCEPT ![r] = AcceptedResponse(followerId, in.id)]
    /\ UNCHANGED <<usr, list, User, Follows, now, published>>

\* Lines 5-26 of followUser and 117-138 of unfollowUser: everything the
\* handler does synchronously, up to the call of prisma.$transaction.
Receive(r, op, in) ==
    /\ req[r].pc = "idle"
    /\ \A q \in Slots : q < r => req[q].pc # "idle"
    /\ LET quiet == \A q \in Slots : ~InFlight(q)
           base == [req[r] EXCEPT !.op = op, !.user = in.user,
                                  !.followingId = in.id,
                                  !.snap = IF quiet THEN Follows ELSE {},
                                  !.quiet = quiet]
       IN
       IF in.user = {}
       THEN \* destructuring req.user throws a TypeError: outer catch, 500
            /\ req' = [req EXCEPT ![r] = [base EXCEPT !.pc = "done"]]
            /\ res' = [res EXCEPT ![r] =
                          <<[status |-> 500, body |-> [error |-> "Server error"]]>>]
       ELSE LET followerId == (CHOOSE p \in in.user : TRUE).userId
            IN
            IF followerId = "" \/ in.id = ""
            THEN /\ req' = [req EXCEPT ![r] =
                               [base EXCEPT !.followerId = followerId,
                                            !.pc = "done"]]
                 /\ res' = [res EXCEPT ![r] =
                               <<[status |-> 400,
                                  body |-> [error |-> "Missing required user IDs"]]>>]
            ELSE /\ req' = [req EXCEPT ![r] =
                               [base EXCEPT !.followerId = followerId,
                                            !.txCount = 1,
                                            !.pc = "txBegin"]]
                 /\ res' = [res EXCEPT ![r] = AcceptedResponse(followerId, in.id)]
    /\ UNCHANGED <<usr, list, User, Follows, now, published>>

followUser(r) == \E in \in FollowInputs : Receive(r, "follow", in)

unfollowUser(r) == \E in \in UnfollowInputs : Receive(r, "unfollow", in)

\* A catch block that throws the error on: the handler's promise rejects and
\* nothing handles it
Catch_Rethrow(rq, message) ==
    [rq EXCEPT !.pending = {}, !.error = message, !.pc = "rejected",
               !.k = 0, !.existingRelationship = {},
               !.follower = IF rq.committed THEN rq.follower ELSE {},
               !.following = IF rq.committed THEN rq.following ELSE {}]

\* A catch block that runs the transaction once more for an operation that
\* has not committed
Catch_Retry(rq, message) ==
    IF rq.txCount < 2 /\ ~rq.committed
    THEN [rq EXCEPT !.pending = {}, !.pc = "txBegin", !.k = 0,
                    !.existingRelationship = {}, !.follower = {},
                    !.following = {}, !.result = "none",
                    !.txCount = rq.txCount + 1]
    ELSE [rq EXCEPT !.pending = {}, !.error = message, !.pc = "deadLetter",
                    !.k = 0, !.existingRelationship = {},
                    !.follower = IF rq.committed THEN rq.follower ELSE {},
                    !.following = IF rq.committed THEN rq.following ELSE {},
                    !.dlqCount = rq.dlqCount + 1]

\* The catch blocks on lines 89-95 and 187-193: the error is logged and the
\* handler asks for the producer in order to publish to the dead letter queue.
\* The locals of the transaction callback are out of scope here; follower
\* and following survive only inside the result of a committed transaction.
Catch(rq, message) ==
    [rq EXCEPT !.pending = {}, !.error = message, !.pc = "deadLetter",
               !.k = 0, !.existingRelationship = {},
               !.follower = IF rq.committed THEN rq.follower ELSE {},
               !.following = IF rq.committed THEN rq.following ELSE {},
               !.dlqCount = rq.dlqCount + 1]

\* prisma.$transaction(async (tx) => ...) opens the transaction (lines 26, 138)
transactionBegin(r) ==
    /\ req[r].pc = "txBegin"
    /\ req' = [req EXCEPT ![r] = [@ EXCEPT !.pc = "lookup"]]
    /\ UNCHANGED <<usr, list, User, Follows, now, res, published>>

\* line 29: tx.user.findUnique for the follower
findFollower(r) ==
    /\ req[r].pc = "lookup" /\ req[r].op = "follow" /\ req[r].k = 0
    /\ req' = [req EXCEPT ![r] =
                  [@ EXCEPT !.follower = userFindUnique(req[r].followerId),
                            !.k = 1]]
    /\ UNCHANGED <<usr, list, User, Follows, now, res, published>>

\* line 30: tx.user.findUnique for the followed user
findFollowing(r) ==
    /\ req[r].pc = "lookup" /\ req[r].op = "follow" /\ req[r].k = 1
    /\ req' = [req EXCEPT ![r] =
                  [@ EXCEPT !.following = userFindUnique(req[r].followingId),
                            !.k = 2]]
    /\ UNCHANGED <<usr, list, User, Follows, now, res, published>>

\* lines 31-50: tx.follows.findUnique for the edge; Promise.all resolves and
\* the callback validates the participants and decides.
findExistingRelationship(r) ==
    /\ req[r].pc = "lookup" /\ req[r].op = "follow" /\ req[r].k = 2
    /\ LET existing == followsFindUnique(req[r].followerId, req[r].followingId)
           rq == [req[r] EXCEPT !.existingRelationship = existing, !.k = 3]
       IN
       req' = [req EXCEPT ![r] =
                  IF rq.follower = {} \/ rq.following = {}
                  THEN Catch(rq, "One or more users not found")
                  ELSE IF existing # {}
                  THEN [rq EXCEPT !.result = "alreadyExists", !.pc = "commit"]
                  ELSE [rq EXCEPT !.pc = "create"]]
    /\ UNCHANGED <<usr, list, User, Follows, now, res, published>>

\* An insert into a Follows table without the primary key on
\* (followerId, followingId): it neither waits nor fails on an equal key
followsCreate_NoPrimaryKey(r) ==
    /\ req[r].pc = "create"
    /\ LET a == req[r].followerId
           b == req[r].followingId
       IN
       IF userFindUnique(a) = {} \/ userFindUnique(b) = {}
       THEN /\ req' = [req EXCEPT ![r] =
                          Catch(@, "P2025 Required record not found")]
            /\ now' = now
       ELSE /\ req' = [req EXCEPT ![r] =
                          [@ EXCEPT !.pending =
                                        {[kind |-> "create",
                                          row |-> [followerId |-> a,
                                                   followingId |-> b,
                                                   createdAt |-> now]]},
                                    !.result = "success",
                                    !.pc = "commit"]]
            /\ now' \in {t \in {now, now + 1} : t <= MaxClock}
    /\ UNCHANGED <<usr, list, User, Follows, res, published>>

\* An insert issued on the global client instead of the transaction client:
\* the row is committed at once
followsCreate_Autocommit(r) ==
    /\ req[r].pc = "create"
    /\ LET a == req[r].followerId
           b == req[r].followingId
       IN
       /\ PendingOn(r, a, b, "create") = {}
       /\ followsFindUnique(a, b) # {} => PendingOn(r, a, b, "delete") = {}
       /\ IF followsFindUnique(a, b) # {}
          THEN /\ req' = [req EXCEPT ![r] =
                             Catch([@ EXCEPT !.conflict = TRUE],
                                   "P2002 Unique constraint failed")]
               /\ now' = now
               /\ Follows' = Follows
          ELSE IF userFindUnique(a) = {} \/ userFindUnique(b) = {}
          THEN /\ req' = [req EXCEPT ![r] =
                             Catch(@, "P2025 Required record not found")]
               /\ now' = now
               /\ Follows' = Follows
          ELSE /\ req' = [req EXCEPT ![r] =
                             [@ EXCEPT !.result = "success", !.pc = "commit"]]
               /\ Follows' = Follows \cup {[followerId |-> a, followingId |-> b,
                                            createdAt |-> now]}
               /\ now' \in {t \in {now, now + 1} : t <= MaxClock}
    /\ UNCHANGED <<usr, list, User, res, published>>

\* lines 53-60: tx.follows.create.  The primary key (followerId, followingId)
\* of model Follows makes the insert wait for an open transaction that wrote
\* the same key and fail with P2002 when a committed row has the key; the
\* relations follower / following make it fail when a connected User row is
\* missing.
followsCreate(r) ==
    /\ req[r].pc = "create"
    /\ LET a == req[r].followerId
           b == req[r].followingId
       IN
       /\ PendingOn(r, a, b, "create") = {}
       /\ followsFindUnique(a, b) # {} => PendingOn(r, a, b, "delete") = {}
       /\ IF followsFindUnique(a, b) # {}
          THEN /\ req' = [req EXCEPT ![r] =
                             Catch([@ EXCEPT !.conflict = TRUE],
                                   "P2002 Unique constraint failed")]
               /\ now' = now
          ELSE IF userFindUnique(a) = {} \/ userFindUnique(b) = {}
          THEN /\ req' = [req EXCEPT ![r] =
                             Catch(@, "P2025 Required record not found")]
               /\ now' = now
          ELSE /\ req' = [req EXCEPT ![r] =
                             [@ EXCEPT !.pending =
                                           {[kind |-> "create",
                                             row |-> [followerId |-> a,
                                                      followingId |-> b,
                                                      createdAt |-> now]]},
                                       !.result = "success",
                                       !.pc = "commit"]]
               /\ now' \in {t \in {now, now + 1} : t <= MaxClock}
    /\ UNCHANGED <<usr, list, User, Follows, res, published>>

\* An unfollow that takes a missing edge for a finished job, as follow does
\* with an existing one
unfollowFindUnique_Idempotent(r) ==
    /\ req[r].pc = "lookup" /\ req[r].op = "unfollow"
    /\ LET existing == followsFindUnique(req[r].followerId, req[r].followingId)
           rq == [req[r] EXCEPT !.existingRelationship = existing, !.k = 1]
       IN
       req' = [req EXCEPT ![r] =
                  IF existing = {}
                  THEN [rq EXCEPT !.result = "alreadyExists", !.pc = "commit"]
                  ELSE [rq EXCEPT !.pc = "delete"]]
    /\ UNCHANGED <<usr, list, User, Follows, now, res, published>>

\* lines 140-151: unfollow looks the edge up and throws when it is absent
unfollowFindUnique(r) ==
    /\ req[r].pc = "lookup" /\ req[r].op = "unfollow"
    /\ LET existing == followsFindUnique(req[r].followerId, req[r].followingId)
           rq == [req[r] EXCEPT !.existingRelationship = existing, !.k = 1]
       IN
       req' = [req EXCEPT ![r] =
                  IF existing = {}
                  THEN Catch(rq, "Relationship does not exist")
                  ELSE [rq EXCEPT !.pc = "delete"]]
    /\ UNCHANGED <<usr, list, User, Follows, now, res, published>>

\* lines 154-163: tx.follows.delete; P2025 when the row is gone by now
followsDelete(r) ==
    /\ req[r].pc = "delete"
    /\ LET a == req[r].followerId
           b == req[r].followingId
           rows == followsFindUnique(a, b)
       IN
       /\ rows # {} => PendingOn(r, a, b, "delete") = {}
       /\ req' = [req EXCEPT ![r] =
                     IF rows = {}
                     THEN Catch(@, "P2025 Record to delete does not exist")
                     ELSE [@ EXCEPT !.pending =
                                        {[kind |-> "delete", row |-> f] : f \in rows},
                                    !.result = "success",
                                    !.pc = "commit"]]
    /\ UNCHANGED <<usr, list, User, Follows, now, res, published>>

\* A delete that removes every edge of the follower instead of the one edge
Apply_DeleteByFollower(table, pending) ==
    {f \in table :
        \A w \in {x \in pending : x.kind = "delete"} :
            f.followerId # w.row.followerId}
        \cup {w.row : w \in {x \in pending : x.kind = "create"}}

\* The rows of the table after the writes of a transaction are applied
Apply(table, pending) ==
    (table \ {w.row : w \in {x \in pending : x.kind = "delete"}})
        \cup {w.row : w \in {x \in pending : x.kind = "create"}}

\* invalidateCache(key) as the controller module resolves it: the name is
\* neither imported nor declared, so the call throws before any cache is
\* reached.
invalidateCache(key) == "invalidateCache is not defined"

\* The transaction callback returned: the store commits (lines 61, 164), the
\* handler resumes on line 64 / 167 with result.success or
\* result.alreadyExists and evaluates the first invalidateCache call of the
\* Promise.all array, which throws into the catch block.
transactionCommit(r) ==
    /\ req[r].pc = "commit"
    /\ Follows' = Apply(Follows, req[r].pending)
    /\ LET rq == [req[r] EXCEPT !.committed = TRUE,
                                !.invalidateCalls = @ + 1]
           key == "user:profile:" \o req[r].followingId
       IN
       req' = [req EXCEPT ![r] = Catch(rq, invalidateCache(key))]
    /\ UNCHANGED <<usr, list, User, now, res, published>>

\* A store failure answered by running the transaction a second time
storeError_Retry(r) ==
    /\ req[r].pc \in {"txBegin", "lookup", "create", "delete", "commit"}
    /\ req' = [req EXCEPT ![r] =
                  IF req[r].txCount < 2
                  THEN [@ EXCEPT !.pending = {}, !.pc = "txBegin", !.k = 0,
                                 !.existingRelationship = {}, !.follower = {},
                                 !.following = {}, !.result = "none",
                                 !.txCount = @ + 1]
                  ELSE Catch([@ EXCEPT !.result = "none"], "store error")]
    /\ UNCHANGED <<usr, list, User, Follows, now, res, published>>

\* A statement of the transaction (begin, query, write or commit) fails or
\* times out: the transaction is rolled back and prisma.$transaction rejects.
storeError(r) ==
    /\ req[r].pc \in {"txBegin", "lookup", "create", "delete", "commit"}
    /\ req' = [req EXCEPT ![r] = Catch([@ EXCEPT !.result = "none"], "store error")]
    /\ UNCHANGED <<usr, list, User, Follows, now, res, published>>

\* A catch block that reports the failure on the topic of the domain event
deadLetterMessage_AsDomainEvent(rq) ==
    [topic |-> IF rq.op = "follow" THEN USER_FOLLOWED ELSE USER_UNFOLLOWED,
     message |-> [operation |-> rq.op,
                  followerId |-> rq.followerId,
                  followingId |-> rq.followingId,
                  error |-> rq.error],
     key |-> "undefined"]

\* The dead letter message of follow's catch block copied into unfollow's
deadLetterMessage_CopiedOperation(rq) ==
    [topic |-> DEAD_LETTER_QUEUE,
     message |-> [operation |-> "follow",
                  followerId |-> rq.followerId,
                  followingId |-> rq.followingId,
                  error |-> rq.error],
     key |-> "undefined"]

\* lines 97-103 / 195-201: the dead letter message of a failed request
deadLetterMessage(rq) ==
    [topic |-> DEAD_LETTER_QUEUE,
     message |-> [operation |-> rq.op,
                  followerId |-> rq.followerId,
                  followingId |-> rq.followingId,
                  error |-> rq.error],
     key |-> "undefined"]

\* A dead letter try block that asks the broker once more after a rejected
\* publish
deadLetterPublish_Republish(r) ==
    /\ req[r].pc = "deadLetter"
    /\ \E outcome \in {"published", "producerRejected", "publishRejected"} :
        /\ published' =
              IF outcome = "published"
              THEN [published EXCEPT ![r] = Append(@, deadLetterMessage(req[r]))]
              ELSE published
        /\ req' =
              IF outcome = "publishRejected" /\ req[r].dlqCount < 2
              THEN [req EXCEPT ![r] = [@ EXCEPT !.dlqCount = @ + 1]]
              ELSE [req EXCEPT ![r] = [@ EXCEPT !.pc = "done"]]
    /\ UNCHANGED <<usr, list, User, Follows, now, res>>

\* A dead letter try block without its own catch: the kafkaError reaches the
\* outer catch of the handler, which answers 500
deadLetterPublish_Respond500(r) ==
    /\ req[r].pc = "deadLetter"
    /\ req' = [req EXCEPT ![r] = [@ EXCEPT !.pc = "done"]]
    /\ \E outcome \in {"published", "producerRejected", "publishRejected"} :
        /\ published' =
              IF outcome = "published"
              THEN [published EXCEPT ![r] = Append(@, deadLetterMessage(req[r]))]
              ELSE published
        /\ res' =
              IF outcome = "published"
              THEN res
              ELSE [res EXCEPT ![r] =
                       Append(@, [status |-> 500, body |-> [error |-> "Server error"]])]
    /\ UNCHANGED <<usr, list, User, Follows, now>>

\* lines 94-107 / 192-205: the dead letter try block.  getUserServiceProducer
\* and producer.publishMessage are two calls of the broker client; either may
\* reject, and the catch on line 105 / 203 logs the kafkaError and ends the
\* handler.
deadLetterPublish(r) ==
    /\ req[r].pc = "deadLetter"
    /\ req' = [req EXCEPT ![r] = [@ EXCEPT !.pc = "done"]]
    /\ \E outcome \in {"published", "producerRejected", "publishRejected"} :
        published' =
            IF outcome = "published"
            THEN [published EXCEPT ![r] = Append(@, deadLetterMessage(req[r]))]
            ELSE published
    /\ UNCHANGED <<usr, list, User, Follows, now, res>>

Next ==
    \E r \in Slots :
        \/ followUser(r)
        \/ unfollowUser(r)
        \/ transactionBegin(r)
        \/ findFollower(r)
        \/ findFollowing(r)
        \/ findExistingRelationship(r)
        \/ followsCreate(r)
        \/ unfollowFindUnique(r)
        \/ followsDelete(r)
        \/ transactionCommit(r)
        \/ storeError(r)
        \/ deadLetterPublish(r)

Spec == Init /\ [][Next]_vars

\* The steps of the background phase of the request in slot r: each is the
\* return, or the failure, of a call to the store or to the broker
Background(r) ==
    \/ transactionBegin(r)
    \/ findFollower(r)
    \/ findFollowing(r)
    \/ findExistingRelationship(r)
    \/ followsCreate(r)
    \/ unfollowFindUnique(r)
    \/ followsDelete(r)
    \/ transactionCommit(r)
    \/ storeError(r)
    \/ deadLetterPublish(r)

\* Every call to the store and to the broker eventually returns or fails (a
\* statement of a transaction fails at the latest when the transaction times
\* out): the background phase of a request in flight eventually takes a step.
\* The requests start on the empty Follows table and make their own edges.
FairInit == Init /\ Follows = {}

FairSpec == FairInit /\ [][Next]_vars /\ \A r \in Slots : WF_vars(Background(r))

TypeOK ==
    /\ Follows \subseteq [followerId : {"u1", "u4"}, followingId : {"u2", "u4"},
                          createdAt : 0..MaxClock]
    /\ now \in 0..MaxClock
    /\ \A r \in Slots : Len(res[r]) <= 1

\* An order by createdAt ascending: oldest row first
OrderByCreatedAtAsc(rows) ==
    {s \in [1..Cardinality(rows) -> rows] :
        /\ \A i, j \in 1..Cardinality(rows) : i # j => s[i] # s[j]
        /\ \A i, j \in 1..Cardinality(rows) :
              i < j => s[i].createdAt <= s[j].createdAt}

\* ------------------------------------------------------------- list reads
\* orderBy: { createdAt: 'desc' } (lines 234, 277): every order of the rows
\* that is non-increasing in createdAt; rows with equal createdAt come in any
\* order.
OrderByCreatedAtDesc(rows) ==
    {s \in [1..Cardinality(rows) -> rows] :
        /\ \A i, j \in 1..Cardinality(rows) : i # j => s[i] # s[j]
        /\ \A i, j \in 1..Cardinality(rows) :
              i < j => s[i].createdAt >= s[j].createdAt}

\* skip / take of findMany (lines 232-233, 275-276)
SkipTake(s, skip, take) ==
    [i \in 1..(IF Len(s) - skip < 0 THEN 0
               ELSE IF Len(s) - skip < take THEN Len(s) - skip ELSE take)
        |-> s[skip + i]]

\* include: { follower: true } / { following: true }: the related User row
userOf(id) == CHOOSE u \in User : u.id = id

\* lines 215-249: the responses getFollowers can give for a table
getFollowers(table, id, page, limit) ==
    LET rows == {f \in table : f.followingId = id}
        skip == (page - 1) * limit
    IN {[followers |-> [i \in 1..Len(pg) |-> userOf(pg[i].followerId)],
         pagination |-> [page |-> page, limit |-> limit,
                         total |-> Cardinality(rows),
                         hasMore |-> skip + Len(pg) < Cardinality(rows)]] :
           pg \in {SkipTake(s, skip, limit) : s \in OrderByCreatedAtDesc(rows)}}

\* lines 258-292: the responses getFollowing can give for a table
getFollowing(table, id, page, limit) ==
    LET rows == {f \in table : f.followerId = id}
        skip == (page - 1) * limit
    IN {[following |-> [i \in 1..Len(pg) |-> userOf(pg[i].followingId)],
         pagination |-> [page |-> page, limit |-> limit,
                         total |-> Cardinality(rows),
                         hasMore |-> skip + Len(pg) < Cardinality(rows)]] :
           pg \in {SkipTake(s, skip, limit) : s \in OrderByCreatedAtDesc(rows)}}

\* page and limit values the list reads are compared on
PageInputs == {1, 2}
LimitInputs == {1, 2}

\* ------------------------------------------------------------ list requests
MaxPage == 2         \* largest page number asked for
MaxLimit == 2        \* largest limit asked for

\* const { page = 1, limit = 20 } = req.query (lines 218, 261)
DefaultPage == 1
DefaultLimit == 20

\* A query value is a string, written as the sequence of its characters
DigitChar == <<"0", "1", "2", "3", "4", "5", "6", "7", "8", "9">>

IsDigit(c) == \E d \in 0..9 : DigitChar[d + 1] = c

DigitValue(c) == CHOOSE d \in 0..9 : DigitChar[d + 1] = c

\* String(n) of a number n >= 0, which parseInt applies to a default value
RECURSIVE toString(_)
toString(n) ==
    IF n < 10 THEN <<DigitChar[n + 1]>>
    ELSE toString(n \div 10) \o <<DigitChar[(n % 10) + 1]>>

RECURSIVE parseDigits(_, _)
parseDigits(s, acc) ==
    IF s = <<>> \/ ~IsDigit(Head(s)) THEN acc
    ELSE parseDigits(Tail(s), 10 * acc + DigitValue(Head(s)))

\* parseInt(value): the integer the longest numeric prefix denotes, as {n},
\* or {} for NaN when there is no such prefix
parseInt(s) ==
    IF s = <<>> THEN {}
    ELSE IF Head(s) = "-"
    THEN IF Len(s) > 1 /\ IsDigit(s[2]) THEN {0 - parseDigits(Tail(s), 0)} ELSE {}
    ELSE IF IsDigit(Head(s)) THEN {parseDigits(s, 0)} ELSE {}

\* The list requests issued: "u3" has no rows
ListInputs ==
    {[op |-> "getFollowers", id |-> "u2"], [op |-> "getFollowers", id |-> "u3"],
     [op |-> "getFollowing", id |-> "u1"]}

\* req.query of the list requests; a parameter is {} when absent
ListQueries ==
    [page : {{}} \cup {{toString(p)} : p \in 0..MaxPage},
     limit : {{}, {<<"x">>}, {<<"1", "x">>}} \cup {{toString(l)} : l \in 1..MaxLimit}]

\* The rows a list request selects: where: { followingId: id } (lines 225,
\* 229) or where: { followerId: id } (lines 268, 272)
Matching(table, op, id) ==
    IF op = "getFollowers" THEN {f \in table : f.followingId = id}
    ELSE {f \in table : f.followerId = id}

\* parseInt(page) and parseInt(limit) of lines 219-220 / 262-263, with the
\* defaults of line 218 / 261, for every query issued
parsedPage ==
    [query \in ListQueries |->
        parseInt(IF query.page = {} THEN toString(DefaultPage)
                 ELSE CHOOSE v \in query.page : TRUE)]

parsedLimit ==
    [query \in ListQueries |->
        parseInt(IF query.limit = {} THEN toString(DefaultLimit)
                 ELSE CHOOSE v \in query.limit : TRUE)]

\* lines 215-222 / 258-265: the handler reads its parameters and calls
\* prisma.$transaction with the two queries; the client rejects a skip or
\* take that is not a number and a negative skip before it asks the store,
\* and the catch of line 251 / 294 answers 500.
ListRequest(op, id, query) ==
    /\ list.pc \in {"idle", "done"}
    /\ LET page == parsedPage[query]
           limit == parsedLimit[query]
       IN
       IF page = {} \/ limit = {}
       THEN list' = [IdleList EXCEPT
                        !.op = op, !.id = id, !.pc = "done",
                        !.response = <<[status |-> 500,
                                        body |-> [error |-> "Server error"]]>>]
       ELSE LET p == CHOOSE n \in page : TRUE
                take == CHOOSE n \in limit : TRUE
                skip == (p - 1) * take
                continues == /\ list.op = op /\ list.id = id /\ list.take = take
                             /\ p > 1 /\ p = Len(list.pages) + 1
                base == [IdleList EXCEPT
                            !.op = op, !.id = id, !.page = p,
                            !.skip = skip, !.take = take,
                            !.pages = IF continues THEN list.pages ELSE <<>>]
            IN
            IF skip < 0
            THEN list' = [base EXCEPT
                             !.pc = "done", !.pages = <<>>,
                             !.response = <<[status |-> 500,
                                             body |-> [error |-> "Server error"]]>>]
            ELSE list' = [base EXCEPT !.pc = "count"]
    /\ UNCHANGED <<usr, User, Follows, now, req, res, published>>

getFollowersRequest ==
    \E in \in ListInputs, query \in ListQueries :
        in.op = "getFollowers" /\ ListRequest(in.op, in.id, query)

getFollowingRequest ==
    \E in \in ListInputs, query \in ListQueries :
        in.op = "getFollowing" /\ ListRequest(in.op, in.id, query)

\* lines 224-226 / 267-269: prisma.follows.count, the first statement of the
\* batch
followsCount ==
    /\ list.pc = "count"
    /\ list' = [list EXCEPT
                   !.totalCount = Cardinality(Matching(Follows, list.op, list.id)),
                   !.pc = "findMany"]
    /\ UNCHANGED <<usr, User, Follows, now, req, res, published>>

\* The body of the 200 response (lines 241-249 / 284-292)
listBody(op, rows, page, take, totalCount, hasMore) ==
    IF op = "getFollowers"
    THEN [followers |-> [i \in 1..Len(rows) |-> userOf(rows[i].followerId)],
          pagination |-> [page |-> page, limit |-> take,
                          total |-> totalCount, hasMore |-> hasMore]]
    ELSE [following |-> [i \in 1..Len(rows) |-> userOf(rows[i].followingId)],
          pagination |-> [page |-> page, limit |-> take,
                          total |-> totalCount, hasMore |-> hasMore]]

\* A findMany whose response takes a full page for the sign of more rows
followsFindMany_FullPageHasMore ==
    /\ list.pc = "findMany"
    /\ \E s \in OrderByCreatedAtDesc(Matching(Follows, list.op, list.id)) :
        LET rows == SkipTake(s, list.skip, list.take)
            hasMore == Len(rows) = list.take
        IN list' = [list EXCEPT
                       !.pc = "done",
                       !.matching = Len(s),
                       !.response =
                           <<[status |-> 200,
                              body |-> listBody(list.op, rows, list.page, list.take,
                                                list.totalCount, hasMore)]>>,
                       !.pages = IF list.page = Len(list.pages) + 1
                                 THEN Append(list.pages, rows) ELSE <<>>]
    /\ UNCHANGED <<usr, User, Follows, now, req, res, published>>

\* lines 228-249 / 271-292: prisma.follows.findMany, the second statement of
\* the batch, and the response.  prisma.$transaction([...]) is given no
\* isolationLevel and the datasource is postgresql, whose default is READ
\* COMMITTED: the statement reads the rows committed when it starts, which
\* need not be the rows count read.  orderBy names createdAt only, so rows
\* with equal createdAt come in an order the store chooses per query.
followsFindMany ==
    /\ list.pc = "findMany"
    /\ \E s \in OrderByCreatedAtDesc(Matching(Follows, list.op, list.id)) :
        LET rows == SkipTake(s, list.skip, list.take)
            hasMore == list.skip + Len(rows) < list.totalCount
        IN list' = [list EXCEPT
                       !.pc = "done",
                       !.matching = Len(s),
                       !.response =
                           <<[status |-> 200,
                              body |-> listBody(list.op, rows, list.page, list.take,
                                                list.totalCount, hasMore)]>>,
                       !.pages = IF list.page = Len(list.pages) + 1
                                 THEN Append(list.pages, rows) ELSE <<>>]
    /\ UNCHANGED <<usr, User, Follows, now, req, res, published>>

\* A statement of the batch fails: prisma.$transaction rejects and the catch
\* of line 251 / 294 answers 500
listStoreError ==
    /\ list.pc \in {"count", "findMany"}
    /\ list' = [list EXCEPT
                   !.pc = "done", !.pages = <<>>,
                   !.response = <<[status |-> 500,
                                   body |-> [error |-> "Server error"]]>>]
    /\ UNCHANGED <<usr, User, Follows, now, req, res, published>>

\* The ordered pairs the concurrent follow / unfollow requests are about
ListPairs == {<<"u1", "u2">>, <<"u4", "u2">>}

\* lines 53-61 as seen by a list request: the transaction of a follow
\* request of another client inserts its row and commits
followCommit ==
    /\ \E pair \in ListPairs :
        /\ followsFindUnique(pair[1], pair[2]) = {}
        /\ Follows' = Apply(Follows,
                            {[kind |-> "create",
                              row |-> [followerId |-> pair[1],
                                       followingId |-> pair[2],
                                       createdAt |-> now]]})
    /\ now' \in {t \in {now, now + 1} : t <= MaxClock}
    /\ list' = [list EXCEPT !.pages = <<>>]
    /\ UNCHANGED <<usr, User, req, res, published>>

\* lines 154-164 as seen by a list request: the transaction of an unfollow
\* request of another client deletes its row and commits
unfollowCommit ==
    /\ \E pair \in ListPairs :
        /\ followsFindUnique(pair[1], pair[2]) # {}
        /\ Follows' = Apply(Follows,
                            {[kind |-> "delete", row |-> f] :
                                f \in followsFindUnique(pair[1], pair[2])})
    /\ list' = [list EXCEPT !.pages = <<>>]
    /\ UNCHANGED <<usr, User, now, req, res, published>>

ListNext ==
    \/ getFollowersRequest
    \/ getFollowingRequest
    \/ followsCount
    \/ followsFindMany
    \/ listStoreError
    \/ followCommit
    \/ unfollowCommit

\* The list requests of one client, with follow / unfollow transactions of
\* other clients committing at any moment
ListSpec == Init /\ [][ListNext]_vars

\* ------------------------------------------------------------ user requests
\* req.body of createUser: ("a3", "n3") is a new identity, "a1" and "n1"
\* belong to the row "u1", "" is a missing field
CreateBodies ==
    {[authUserId |-> "a3", username |-> "n3"],
     [authUserId |-> "a1", username |-> "n3"],
     [authUserId |-> "a3", username |-> "n1"],
     [authUserId |-> "", username |-> "n3"]}

\* req.params.id of getUserById, updateUser and deleteUser
UserIdInputs == {"u1", "a1", "u3", "a3"}

\* @default(cuid()): an id no row has
cuid == CHOOSE id \in {"u3", "u5"} : \A u \in User : u.id # id

\* An insert into a User table whose columns authUserId and username are
\* not @unique
userCreate_NotUnique(table, data) ==
    IF data.authUserId = "" \/ data.username = ""
    THEN [code |-> "validation", table |-> table]
    ELSE [code |-> "ok",
          table |-> table \cup {[id |-> cuid, authUserId |-> data.authUserId,
                                 username |-> data.username, bio |-> data.bio]}]

\* prisma.user.create: the code of the error, or "ok", and the table after
\* it.  authUserId and username are required and @unique.
userCreate(table, data) ==
    IF data.authUserId = "" \/ data.username = ""
    THEN [code |-> "validation", table |-> table]
    ELSE IF \E u \in table : u.authUserId = data.authUserId
                             \/ u.username = data.username
    THEN [code |-> "P2002", table |-> table]
    ELSE [code |-> "ok",
          table |-> table \cup {[id |-> cuid, authUserId |-> data.authUserId,
                                 username |-> data.username, bio |-> data.bio]}]

\* prisma.user.update({ where: { authUserId }, data })
userUpdate(table, authUserId, data) ==
    IF \A u \in table : u.authUserId # authUserId
    THEN [code |-> "P2025", table |-> table]
    ELSE [code |-> "ok",
          table |-> {IF u.authUserId = authUserId THEN [u EXCEPT !.bio = data.bio]
                     ELSE u : u \in table}]

\* A delete on a schema whose relations would not restrict it
userDelete_Unrestricted(table, follows, id) ==
    IF \A u \in table : u.id # id
    THEN [code |-> "P2025", table |-> table]
    ELSE [code |-> "ok", table |-> {u \in table : u.id # id}]

\* prisma.user.delete({ where: { id } }): the relations follower / following
\* of model Follows name no onDelete, so a row that a Follows row refers to
\* cannot be deleted
userDelete(table, follows, id) ==
    IF \A u \in table : u.id # id
    THEN [code |-> "P2025", table |-> table]
    ELSE IF \E f \in follows : f.followerId = id \/ f.followingId = id
    THEN [code |-> "P2003", table |-> table]
    ELSE [code |-> "ok", table |-> {u \in table : u.id # id}]

\* The writes of open transactions that refer to the User row id
PendingRefs(id) ==
    {q \in Slots :
        \E w \in req[q].pending : w.row.followerId = id \/ w.row.followingId = id}

\* A call of the store fails on its own (connection lost, timeout)
StoreOutcomes == {"reached", "P1001"}

\* part_002 lines 10-28 with createUserService (userService.js lines 4-14)
createUser ==
    \E body \in CreateBodies, outcome \in StoreOutcomes :
        LET r == IF outcome = "P1001" THEN [code |-> "P1001", table |-> User]
                 ELSE userCreate(User, [authUserId |-> body.authUserId,
                                        username |-> body.username, bio |-> ""])
        IN /\ User' = r.table
           /\ usr' = [usr EXCEPT !.res =
                         [op |-> "createUser", id |-> body.authUserId,
                          body |-> {body}, code |-> r.code,
                          status |-> IF r.code = "ok" THEN 201
                                     ELSE IF r.code = "P2002" THEN 400 ELSE 500,
                          error |-> IF r.code = "ok" THEN ""
                                    ELSE IF r.code = "P2002" THEN "User already exists"
                                    ELSE "Server error",
                          calls |-> <<"create">>]]
           /\ UNCHANGED <<Follows, now, req, res, published, list>>

\* part_002 lines 39-48 with getUserByIdService (userService.js lines 20-28)
getUserById ==
    \E id \in UserIdInputs, outcome \in StoreOutcomes :
        LET found == {u \in User : u.authUserId = id}
        IN /\ usr' = [usr EXCEPT !.res =
                         [op |-> "getUserById", id |-> id, body |-> {},
                          code |-> IF outcome = "P1001" THEN "P1001"
                                   ELSE IF found = {} THEN "User not found" ELSE "ok",
                          status |-> IF outcome = "reached" /\ found # {}
                                     THEN 200 ELSE 404,
                          error |-> IF outcome = "reached" /\ found # {}
                                    THEN "" ELSE "User not found",
                          calls |-> <<"findUnique">>]]
           /\ UNCHANGED <<User, Follows, now, req, res, published, list>>

\* part_002 lines 50-60 with updateUserService (userService.js lines 30-35)
updateUser ==
    \E id \in UserIdInputs, outcome \in StoreOutcomes :
        LET r == IF outcome = "P1001" THEN [code |-> "P1001", table |-> User]
                 ELSE userUpdate(User, id, [bio |-> "b"])
        IN /\ User' = r.table
           /\ usr' = [usr EXCEPT !.res =
                         [op |-> "updateUser", id |-> id, body |-> {},
                          code |-> r.code,
                          status |-> IF r.code = "ok" THEN 200 ELSE 404,
                          error |-> IF r.code = "ok" THEN "" ELSE "User not found",
                          calls |-> <<"update">>]]
           /\ UNCHANGED <<Follows, now, req, res, published, list>>

\* part_002 lines 62-71 with deleteUserService (userService.js lines 37-39).
\* The delete waits for the open transactions whose writes refer to the row.
deleteUser ==
    \E id \in UserIdInputs, outcome \in StoreOutcomes :
        LET r == IF outcome = "P1001" THEN [code |-> "P1001", table |-> User]
                 ELSE userDelete(User, Follows, id)
        IN /\ outcome = "reached" => PendingRefs(id) = {}
           /\ User' = r.table
           /\ usr' = [usr EXCEPT !.res =
                         [op |-> "deleteUser", id |-> id, body |-> {},
                          code |-> r.code,
                          status |-> IF r.code = "ok" THEN 204 ELSE 404,
                          error |-> IF r.code = "ok" THEN "" ELSE "User not found",
                          calls |-> <<"delete">>]]
           /\ UNCHANGED <<Follows, now, req, res, published, list>>

\* The user requests next to one follow or unfollow request at a time
UserNext ==
    \/ createUser
    \/ getUserById
    \/ updateUser
    \/ deleteUser
    \/ followUser(1)
    \/ unfollowUser(1)
    \/ transactionBegin(1)
    \/ findFollower(1)
    \/ findFollowing(1)
    \/ findExistingRelationship(1)
    \/ followsCreate(1)
    \/ unfollowFindUnique(1)
    \/ followsDelete(1)
    \/ transactionCommit(1)
    \/ storeError(1)
    \/ deadLetterPublish(1)

UserSpec == Init /\ [][UserNext]_vars

\* ---------------------------------------------------------- executeWithRetry
DefaultMaxRetries == 3
DefaultDelay == 1000

\* userService.js lines 443-454: the codes isTransientError retries on
transientErrors ==
    {"P1001", "P1002", "P1008", "P1017", "P2024",
     "P2034", "P2035", "P2036", "P2037", "P2038"}

\* An isTransientError that takes every error for a transient one
isTransientError_Always(error) == TRUE

\* userService.js lines 442-456
isTransientError(error) == error.code \in transientErrors

\* What one call of operation settles with: a value, two transient errors,
\* a unique constraint violation, and an Error without a code
OperationResults ==
    {[settled |-> "resolved", value |-> "row", code |-> ""],
     [settled |-> "rejected", value |-> "", code |-> "P1001"],
     [settled |-> "rejected", value |-> "", code |-> "P2034"],
     [settled |-> "rejected", value |-> "", code |-> "P2002"],
     [settled |-> "rejected", value |-> "", code |-> "undefined"]}

\* The calls an operation may see
OperationCalls ==
    1..(IF MaxAttempts > DefaultMaxRetries THEN MaxAttempts ELSE DefaultMaxRetries)

\* The argument maxRetries: absent, or a number
MaxRetriesInputs == {{}} \cup {{n} : n \in 0..MaxAttempts}

\* userService.js line 424: the call, with the default parameters applied;
\* operation[k] is what the k-th call of operation settles with
executeWithRetry ==
    /\ usr.retry.pc = "idle"
    /\ \E operation \in [OperationCalls -> OperationResults],
          maxRetries \in MaxRetriesInputs :
        usr' = [usr EXCEPT !.retry =
                   [IdleRetry EXCEPT
                       !.pc = "loop",
                       !.operation = operation,
                       !.maxRetries = IF maxRetries = {} THEN DefaultMaxRetries
                                      ELSE CHOOSE n \in maxRetries : TRUE,
                       !.delay = DefaultDelay,
                       !.attempt = 1]]
    /\ UNCHANGED <<User, Follows, now, req, res, published, list>>

\* userService.js lines 426-438: one iteration of the loop
retryAttempt ==
    /\ usr.retry.pc = "loop"
    /\ usr.retry.attempt <= usr.retry.maxRetries
    /\ LET y == usr.retry
           result == y.operation[y.calls + 1]
           called == [y EXCEPT !.calls = @ + 1]
       IN usr' = [usr EXCEPT !.retry =
                     IF result.settled = "resolved"
                     THEN [called EXCEPT !.pc = "returned", !.returned = {result}]
                     ELSE IF ~isTransientError(result)
                     THEN [called EXCEPT !.pc = "thrown", !.lastError = {result},
                                         !.thrown = {result}]
                     ELSE [called EXCEPT !.lastError = {result},
                                         !.waited = IF y.attempt < y.maxRetries
                                                    THEN @ + y.delay * y.attempt
                                                    ELSE @,
                                         !.attempt = @ + 1]]
    /\ UNCHANGED <<User, Follows, now, req, res, published, list>>

\* userService.js lines 426, 439: the loop condition fails, throw lastError
retryExhausted ==
    /\ usr.retry.pc = "loop"
    /\ usr.retry.attempt > usr.retry.maxRetries
    /\ usr' = [usr EXCEPT !.retry = [@ EXCEPT !.pc = "thrown",
                                               !.thrown = usr.retry.lastError]]
    /\ UNCHANGED <<User, Follows, now, req, res, published, list>>

RetryNext ==
    \/ executeWithRetry
    \/ retryAttempt
    \/ retryExhausted

\* Every call of operation settles and every timer of the delay fires: the
\* loop eventually takes its next step
RetrySpec ==
    Init /\ [][RetryNext]_vars /\ WF_vars(retryAttempt \/ retryExhausted)

\* ------------------------------------------------------ USER_CREATED events
\* The messages of the topic: a registration of the new identity ("a3",
\* "n3"), its completion, a registration of the identity of row "u1", and a
\* registration of "a3" under the username of row "u1"
Messages ==
    {[authId |-> "a3", username |-> "n3", registrationStatus |-> "PENDING"],
     [authId |-> "a3", username |-> "n3", registrationStatus |-> "COMPLETE"],
     [authId |-> "a1", username |-> "n1", registrationStatus |-> "PENDING"],
     [authId |-> "a3", username |-> "n1", registrationStatus |-> "PENDING"]}

\* UserService.createUser: inserts the User row of the identity; a taken
\* authUserId or username is a conflict error and nothing is written
UserService_createUser(table, data) ==
    IF \E u \in table : u.authUserId = data.authUserId
                        \/ u.username = data.username
    THEN [code |-> "P2002", table |-> table]
    ELSE [code |-> "ok",
          table |-> table \cup {[id |-> cuid, authUserId |-> data.authUserId,
                                 username |-> data.username, bio |-> ""]}]

\* A handler without its try block: the error leaves the handler
handlerCatch_Rethrow(h, err) == [h EXCEPT !.pc = "done", !.thrown = err]

\* part_001 lines 65-67: the catch block logs the error and the handler
\* returns
handlerCatch(h, err) == [h EXCEPT !.pc = "done", !.caught = err]

\* part_001 lines 41-49: the consumer calls the handler with a message; a
\* registration completion returns at once, anything else enters the try
\* block and constructs the service
handleUserCreatedEvent(d) ==
    /\ usr.h[d].pc = "idle"
    /\ \E message \in Messages :
        usr' = [usr EXCEPT !.h[d] =
                   IF message.registrationStatus = "COMPLETE"
                   THEN [@ EXCEPT !.pc = "done", !.message = {message}]
                   ELSE [@ EXCEPT !.pc = "findUnique", !.message = {message}]]
    /\ UNCHANGED <<User, Follows, now, req, res, published, list>>

\* part_001 lines 51-58: prisma.user.findUnique({ where: { authUserId } })
\* and the return when the row exists
handlerFindUnique(d) ==
    /\ usr.h[d].pc = "findUnique"
    /\ \E outcome \in StoreOutcomes :
        LET h == [usr.h[d] EXCEPT !.calls = Append(@, "findUnique")]
            message == CHOOSE m \in h.message : TRUE
            existingUser == {u \in User : u.authUserId = message.authId}
        IN usr' = [usr EXCEPT !.h[d] =
                      IF outcome = "P1001" THEN handlerCatch(h, "P1001")
                      ELSE IF existingUser # {} THEN [h EXCEPT !.pc = "done"]
                      ELSE [h EXCEPT !.pc = "createUser"]]
    /\ UNCHANGED <<User, Follows, now, req, res, published, list>>

\* part_001 lines 60-64: userServiceInstance.createUser
handlerCreateUser(d) ==
    /\ usr.h[d].pc = "createUser"
    /\ \E outcome \in StoreOutcomes :
        LET h == [usr.h[d] EXCEPT !.calls = Append(@, "createUser")]
            message == CHOOSE m \in h.message : TRUE
            r == IF outcome = "P1001" THEN [code |-> "P1001", table |-> User]
                 ELSE UserService_createUser(User, [authUserId |-> message.authId,
                                                    username |-> message.username])
        IN /\ User' = r.table
           /\ usr' = [usr EXCEPT !.h[d] =
                         IF r.code = "ok" THEN [h EXCEPT !.pc = "done"]
                         ELSE handlerCatch(h, r.code)]
    /\ UNCHANGED <<Follows, now, req, res, published, list>>

ConsumerNext ==
    \E d \in Deliveries :
        \/ handleUserCreatedEvent(d)
        \/ handlerFindUnique(d)
        \/ handlerCreateUser(d)

ConsumerSpec == Init /\ [][ConsumerNext]_vars

\* ------------------------------------------------------------------ claims
\* The request in slot r passed the id check and was answered 202
Accepted(r) == req[r].txCount > 0

\* The number of messages of a topic the broker accepted from slot r
TopicCount(r, topic) ==
    Cardinality({i \in 1..Len(published[r]) : published[r][i].topic = topic})

\* Neither the store nor the broker failed during the request in slot r
Healthy(r) ==
    /\ req[r].error # "store error"
    /\ Done(r) => TopicCount(r, DEAD_LETTER_QUEUE) = req[r].dlqCount

\* Both participants of the request in slot r are rows of User
ParticipantsExist(r) ==
    /\ userFindUnique(req[r].followerId) # {}
    /\ userFindUnique(req[r].followingId) # {}

SamePair(r, q) ==
    /\ req[r].followerId = req[q].followerId
    /\ req[r].followingId = req[q].followingId

EdgeIn(table, r) ==
    {f \in table : f.followerId = req[r].followerId
                   /\ f.followingId = req[r].followingId}

\* The four cache keys of lines 67-70 / 170-173
FourKeys(r) ==
    {"user:profile:" \o req[r].followingId,
     "user:profile:" \o req[r].followerId,
     "follow:" \o req[r].followerId \o ":following",
     "follow:" \o req[r].followingId \o ":followers"}

\* C1: every follow / unfollow request with both ids present has its 202
\* response (status "processing", followerId, followingId) from the moment it
\* is received, that is before its transaction begins, and keeps exactly that
\* response whatever the store and the broker do afterwards.
C1_AcceptedBeforeTransaction ==
    \A r \in Slots :
        (req[r].op # "none" /\ req[r].followerId # "" /\ req[r].followingId # "")
        => /\ Len(res[r]) = 1
           /\ res[r][1].status = 202
           /\ res[r][1].body.status = "processing"
           /\ res[r][1].body.followerId = req[r].followerId
           /\ res[r][1].body.followingId = req[r].followingId

\* C1 witness: one request answered 202 whose transaction has not begun,
\* another answered 202 whose transaction failed in the store.
C1_Witness ==
    \E r, q \in Slots :
        /\ req[r].pc = "txBegin" /\ Len(res[r]) = 1 /\ res[r][1].status = 202
        /\ Done(q) /\ req[q].error = "store error"
        /\ Len(res[q]) = 1 /\ res[q][1].status = 202

\* C2 (as claimed): two follows of the same pair of existing users, run to
\* completion one after the other with healthy collaborators and no edge
\* before, leave one row, one USER_FOLLOWED event in total, and the second
\* call publishes nothing (no event, no dead letter).
C2_FollowTwiceOneEvent ==
    \A r1, r2 \in Slots :
        (/\ r1 < r2
         /\ req[r1].op = "follow" /\ req[r2].op = "follow"
         /\ Accepted(r1) /\ Accepted(r2) /\ SamePair(r1, r2)
         /\ ParticipantsExist(r1)
         /\ EdgeIn(req[r1].snap, r1) = {}
         /\ \A q \in Slots \ {r1, r2} : ~Accepted(q)
         /\ req[r1].quiet /\ req[r2].quiet
         /\ Done(r1) /\ Done(r2) /\ Healthy(r1) /\ Healthy(r2))
        => /\ Cardinality(EdgeIn(Follows, r1)) = 1
           /\ TopicCount(r1, USER_FOLLOWED) + TopicCount(r2, USER_FOLLOWED) = 1
           /\ TopicCount(r2, USER_FOLLOWED) = 0
           /\ TopicCount(r2, DEAD_LETTER_QUEUE) = 0

\* C3 (as claimed): a follow whose insert loses the primary key race is the
\* idempotent "already exists" outcome: it records no error and sends nothing
\* to the dead letter queue.
C3_RaceLoserIsNoOp ==
    \A r \in Slots :
        req[r].conflict
        => /\ req[r].error = ""
           /\ req[r].dlqCount = 0
           /\ TopicCount(r, DEAD_LETTER_QUEUE) = 0

\* C4: an accepted request enters the dead letter publish exactly once if a
\* step of its background phase failed and never otherwise, and a dead
\* letter message carries the request's operation, both ids and the error
\* message.
C4_DeadLetterExactlyOnFailure ==
    \A r \in Slots :
        Accepted(r)
        => /\ req[r].error # "" => req[r].dlqCount = 1
           /\ req[r].error = "" => req[r].dlqCount = 0
           /\ TopicCount(r, DEAD_LETTER_QUEUE) = Len(published[r])
           /\ Len(published[r]) <= req[r].dlqCount
           /\ \A i \in 1..Len(published[r]) :
                 /\ published[r][i].message.operation = req[r].op
                 /\ published[r][i].message.operation \in {"follow", "unfollow"}
                 /\ published[r][i].message.followerId = req[r].followerId
                 /\ published[r][i].message.followingId = req[r].followingId
                 /\ published[r][i].message.error = req[r].error
                 /\ published[r][i].message.error # ""

\* C4 witness: an unfollow failed in the store and its dead letter message
\* was accepted by the broker.
C4_Witness ==
    \E r \in Slots :
        /\ Done(r) /\ req[r].op = "unfollow" /\ req[r].error = "store error"
        /\ Len(published[r]) = 1
        /\ published[r][1].topic = DEAD_LETTER_QUEUE
        /\ published[r][1].message.operation = "unfollow"

\* C5 (as claimed): after a transaction that returned success or
\* alreadyExists all four invalidations are attempted and the request is not
\* dead-lettered; on a new edge the domain event is published.
C5_InvalidationsAttemptedNotFatal ==
    \A r \in Slots :
        (Done(r) /\ req[r].committed /\ Healthy(r))
        => /\ req[r].invalidated = FourKeys(r)
           /\ req[r].dlqCount = 0
           /\ (req[r].op = "follow" /\ req[r].result = "success")
                 => TopicCount(r, USER_FOLLOWED) = 1
           /\ req[r].op = "unfollow" => TopicCount(r, USER_UNFOLLOWED) = 1

\* C6 (as claimed): a background phase whose transaction committed a write
\* goes on to the four invalidations and then to the event publish, in that
\* order, and the committed write is kept.
C6_CommitThenInvalidateThenPublish ==
    \A r \in Slots :
        /\ req[r].invalidateCalls > 0 => req[r].committed
        /\ (TopicCount(r, USER_FOLLOWED) + TopicCount(r, USER_UNFOLLOWED) > 0)
              => Cardinality(req[r].invalidated) = 4
        /\ (Done(r) /\ req[r].committed /\ req[r].result = "success" /\ Healthy(r))
              => /\ Cardinality(req[r].invalidated) = 4
                 /\ TopicCount(r, IF req[r].op = "follow" THEN USER_FOLLOWED
                                  ELSE USER_UNFOLLOWED) = 1

\* C7 (as claimed): a follow publishes USER_FOLLOWED if and only if its
\* transaction inserted a new edge, with key follow-{followerId}-{followingId}
\* and the ids and authUserIds of both participants.
C7_FollowedEventIffNewEdge ==
    \A r \in Slots :
        (req[r].op = "follow" /\ Done(r) /\ Healthy(r))
        => /\ (TopicCount(r, USER_FOLLOWED) = 1)
                 <=> (req[r].committed /\ req[r].result = "success")
           /\ \A i \in 1..Len(published[r]) :
                 published[r][i].topic = USER_FOLLOWED
                 => /\ published[r][i].key =
                          "follow-" \o req[r].followerId \o "-" \o req[r].followingId
                    /\ published[r][i].message.followerId = req[r].followerId
                    /\ published[r][i].message.followingId = req[r].followingId
                    /\ published[r][i].message.followerAuthId
                          = userOf(req[r].followerId).authUserId
                    /\ published[r][i].message.followingAuthId
                          = userOf(req[r].followingId).authUserId

\* The request in slot r ran its background phase alone: nothing was in
\* flight when it arrived and no later request was accepted.
RanAlone(r) ==
    /\ req[r].quiet
    /\ \A q \in Slots : q > r => ~Accepted(q)

\* C8: an unfollow of a pair without an edge is answered 202, leaves the
\* Follows table as it found it, never reaches the cache invalidation,
\* publishes no USER_UNFOLLOWED, ends in the catch block exactly once and
\* whatever it publishes is a dead letter message with operation "unfollow".
C8_UnfollowMissingEdge ==
    \A r \in Slots :
        (req[r].op = "unfollow" /\ Accepted(r) /\ RanAlone(r)
         /\ EdgeIn(req[r].snap, r) = {})
        => /\ Len(res[r]) = 1 /\ res[r][1].status = 202
           /\ Follows = req[r].snap
           /\ ~req[r].committed /\ req[r].pending = {}
           /\ req[r].invalidateCalls = 0 /\ req[r].invalidated = {}
           /\ TopicCount(r, USER_UNFOLLOWED) = 0
           /\ req[r].dlqCount <= 1
           /\ Done(r) => (req[r].dlqCount = 1 /\ req[r].error # "")
           /\ \A i \in 1..Len(published[r]) :
                 /\ published[r][i].topic = DEAD_LETTER_QUEUE
                 /\ published[r][i].message.operation = "unfollow"
                 /\ published[r][i].message.followerId = req[r].followerId
                 /\ published[r][i].message.followingId = req[r].followingId

\* C8 witness: an unfollow of a missing edge finished and its dead letter
\* message, with the error of line 150, was accepted by the broker.
C8_Witness ==
    \E r \in Slots :
        /\ req[r].op = "unfollow" /\ Accepted(r) /\ RanAlone(r) /\ Done(r)
        /\ EdgeIn(req[r].snap, r) = {}
        /\ Len(published[r]) = 1
        /\ published[r][1].topic = DEAD_LETTER_QUEUE
        /\ published[r][1].message.error = "Relationship does not exist"

\* C9: a follow one of whose participants has no User row creates no Follows
\* row, never reaches the cache invalidation, publishes no USER_FOLLOWED,
\* calls the transaction once only, ends in the catch block and whatever it
\* publishes is a dead letter message with operation "follow".
C9_UnknownParticipantAborts ==
    \A r \in Slots :
        (req[r].op = "follow" /\ Accepted(r) /\ ~ParticipantsExist(r))
        => /\ EdgeIn(Follows, r) = {}
           /\ ~req[r].committed
           /\ \A w \in req[r].pending : w.kind # "create"
           /\ req[r].invalidateCalls = 0 /\ req[r].invalidated = {}
           /\ TopicCount(r, USER_FOLLOWED) = 0
           /\ req[r].txCount = 1
           /\ Done(r) => (req[r].dlqCount = 1 /\ req[r].error # "")
           /\ \A i \in 1..Len(published[r]) :
                 /\ published[r][i].topic = DEAD_LETTER_QUEUE
                 /\ published[r][i].message.operation = "follow"

\* C9 witness: a follow of an id without a User row finished with the error
\* of line 43 in the dead letter queue.
C9_Witness ==
    \E r \in Slots :
        /\ req[r].op = "follow" /\ Accepted(r) /\ Done(r)
        /\ userFindUnique(req[r].followingId) = {}
        /\ Len(published[r]) = 1
        /\ published[r][1].message.error = "One or more users not found"

\* The follow in slot r1 and the unfollow in slot r2 of the same pair of
\* existing users ran to completion one after the other, with no edge of
\* the pair before, no failure of the store and no other request accepted.
FollowThenUnfollow(r1, r2) ==
    /\ r1 < r2
    /\ req[r1].op = "follow" /\ req[r2].op = "unfollow"
    /\ Accepted(r1) /\ Accepted(r2) /\ SamePair(r1, r2)
    /\ ParticipantsExist(r1)
    /\ EdgeIn(req[r1].snap, r1) = {}
    /\ \A q \in Slots \ {r1, r2} : ~Accepted(q)
    /\ req[r1].quiet /\ req[r2].quiet
    /\ Done(r1) /\ Done(r2)
    /\ req[r1].error # "store error" /\ req[r2].error # "store error"

\* C10: follow(A,B) then unfollow(A,B), each run to completion, leave no
\* edge (A,B), and getFollowing(A) and getFollowers(B) answer as they did on
\* the table the follow found.
C10_FollowUnfollowRoundTrip ==
    \A r1, r2 \in Slots :
        FollowThenUnfollow(r1, r2)
        => /\ EdgeIn(Follows, r1) = {}
           /\ \A page \in PageInputs, limit \in LimitInputs :
                 /\ getFollowing(Follows, req[r1].followerId, page, limit)
                       = getFollowing(req[r1].snap, req[r1].followerId, page, limit)
                 /\ getFollowers(Follows, req[r1].followingId, page, limit)
                       = getFollowers(req[r1].snap, req[r1].followingId, page, limit)

\* C10 witness: the round trip happened on a table in which A already
\* follows somebody and B already has a follower.
C10_Witness ==
    \E r1, r2 \in Slots :
        /\ FollowThenUnfollow(r1, r2)
        /\ req[r2].committed
        /\ \E f \in Follows : f.followerId = req[r1].followerId
        /\ \E f \in Follows : f.followingId = req[r1].followingId

\* C11: every follow / unfollow request has exactly one HTTP response from
\* the moment it is received; a request answered 202 keeps that single
\* response through every outcome of its background phase (transaction
\* abort, throwing invalidation, dead letter publish accepted or rejected):
\* no second response and no 500 is written.
C11_ExactlyOneResponse ==
    \A r \in Slots :
        /\ req[r].op = "none" => res[r] = <<>>
        /\ req[r].op # "none" => Len(res[r]) = 1
        /\ (req[r].txCount > 0 \/ req[r].dlqCount > 0 \/ req[r].committed
            \/ req[r].error # "" \/ InFlight(r))
              => \A i \in 1..Len(res[r]) : res[r][i].status = 202
        /\ \A i \in 1..Len(res[r]) :
              res[r][i].status = 500 => (req[r].txCount = 0 /\ Done(r))

\* C11 witness: a background phase failed, its dead letter publish was
\* rejected too, and the request still has the 202 as its only response;
\* another request was answered 500 before any 202.
C11_Witness ==
    \E r, q \in Slots :
        /\ Done(r) /\ req[r].error # "" /\ req[r].dlqCount = 1
        /\ published[r] = <<>>
        /\ Len(res[r]) = 1 /\ res[r][1].status = 202
        /\ Done(q) /\ Len(res[q]) = 1 /\ res[q][1].status = 500


\* C12: the step that leaves the dead letter try block, whether the broker
\* accepted the message, refused the producer or rejected the publish, ends
\* the handler (its promise resolves), leaves both tables, the clock and the
\* response as they were, enters no further publish, and what the broker
\* holds afterwards is either what it held or that plus the one dead letter
\* message; a finished handler takes no further step.
C12_DeadLetterFailureSwallowed ==
    [][\A r \in Slots :
          /\ (req[r].pc = "deadLetter" /\ req'[r] # req[r])
                => /\ req'[r] = [req[r] EXCEPT !.pc = "done"]
                   /\ Follows' = Follows /\ User' = User /\ now' = now
                   /\ res' = res
                   /\ published'[r] \in
                         {published[r],
                          Append(published[r], deadLetterMessage(req[r]))}
          /\ Done(r) => (req'[r] = req[r] /\ published'[r] = published[r]
                         /\ res'[r] = res[r])]_vars

\* C12 witness: a follow committed its row, went to the catch block, the
\* dead letter publish was rejected and the handler finished: nothing was
\* published and the committed row is in the table.
C12_Witness ==
    \E r \in Slots :
        /\ Done(r) /\ req[r].op = "follow" /\ req[r].committed
        /\ req[r].result = "success" /\ req[r].dlqCount = 1
        /\ published[r] = <<>>
        /\ EdgeIn(Follows, r) # {}


\* C13: a follow / unfollow request of a principal whose userId is missing,
\* or whose path id is missing, is answered 400 with the message of line 12
\* and that is all: the handler is over, no 202 was written, no transaction
\* was called, nothing was written or is pending in the store, no cache key
\* was invalidated and nothing was published to any topic.
C13_MissingIdsAnswer400Only ==
    \A r \in Slots :
        (/\ req[r].op # "none" /\ req[r].user # {}
         /\ (req[r].followerId = "" \/ req[r].followingId = ""))
        => /\ res[r] = <<[status |-> 400,
                          body |-> [error |-> "Missing required user IDs"]]>>
           /\ Done(r)
           /\ req[r].txCount = 0 /\ ~req[r].committed /\ req[r].pending = {}
           /\ req[r].invalidateCalls = 0 /\ req[r].invalidated = {}
           /\ req[r].dlqCount = 0 /\ req[r].error = ""
           /\ published[r] = <<>>
           /\ (\A q \in Slots : ~Accepted(q)) => \E F \in InitialFollows : Follows = F

\* C13 witness: a follow without the principal's userId and an unfollow
\* without the path id were both answered 400.
C13_Witness ==
    \E r, q \in Slots :
        /\ req[r].op = "follow" /\ req[r].user # {} /\ req[r].followerId = ""
        /\ req[q].op = "unfollow" /\ req[q].followingId = ""
        /\ res[r][1].status = 400 /\ res[q][1].status = 400


\* C14: whatever an unfollow request published to USER_UNFOLLOWED, its
\* transaction had found the edge, deleted it and committed; an unfollow
\* whose edge was absent or whose transaction failed has no USER_UNFOLLOWED
\* message, at any point of its run.
C14_UnfollowedEventOnlyOnSuccess ==
    \A r \in Slots :
        req[r].op = "unfollow"
        => /\ TopicCount(r, USER_UNFOLLOWED) > 0
                 => (req[r].committed /\ req[r].result = "success")
           /\ (~req[r].committed \/ req[r].result # "success")
                 => \A i \in 1..Len(published[r]) :
                       published[r][i].topic # USER_UNFOLLOWED
           /\ req[r].error \in {"Relationship does not exist", "store error",
                                "P2025 Record to delete does not exist"}
                 => TopicCount(r, USER_UNFOLLOWED) = 0

\* C14 witness: one unfollow found no edge, another failed in the store; both
\* finished and both published, neither to USER_UNFOLLOWED.
C14_Witness ==
    \E r, q \in Slots :
        /\ req[r].op = "unfollow" /\ Done(r)
        /\ req[r].error = "Relationship does not exist"
        /\ Len(published[r]) = 1
        /\ req[q].op = "unfollow" /\ Done(q) /\ req[q].error = "store error"
        /\ Len(published[q]) = 1
        /\ TopicCount(r, USER_UNFOLLOWED) + TopicCount(q, USER_UNFOLLOWED) = 0


\* C15: a follow calls the transaction once; when it is at the insert or at
\* the commit, all three lookups of that transaction have completed and both
\* participants were found; its row is pending only between the insert and
\* the commit; a follow that has not committed has written nothing, so that
\* a follow that ran alone and did not commit (missing participant, store
\* error at any statement, the commit included) leaves the Follows table
\* exactly as it found it.
C15_FollowTransactionAllOrNothing ==
    \A r \in Slots :
        (req[r].op = "follow" /\ Accepted(r))
        => /\ req[r].txCount = 1
           /\ req[r].pc \in {"create", "commit"}
                 => /\ req[r].k = 3
                    /\ req[r].follower = userFindUnique(req[r].followerId)
                    /\ req[r].following = userFindUnique(req[r].followingId)
                    /\ req[r].follower # {} /\ req[r].following # {}
           /\ req[r].pc = "create" => req[r].existingRelationship = {}
           /\ req[r].pending # {} => (req[r].pc = "commit" /\ ~req[r].committed)
           /\ (RanAlone(r) /\ ~req[r].committed) => Follows = req[r].snap
           /\ (RanAlone(r) /\ req[r].committed /\ req[r].result = "alreadyExists")
                 => Follows = req[r].snap

\* C15 witness: the first follow ran alone, inserted its row (the store clock
\* moved), then the store failed before the commit was over: the follow is in
\* its catch block and the table is the one it found.
C15_Witness ==
    \E r \in Slots :
        /\ r = 1 /\ req[r].op = "follow" /\ RanAlone(r)
        /\ now = 1
        /\ req[r].error = "store error" /\ ~req[r].committed
        /\ Follows = req[r].snap


\* C16: an accepted follow / unfollow request calls prisma.$transaction
\* exactly once and publishes at most one domain event, whatever fails; once
\* an error is recorded the request is in its catch block or over, with no
\* write pending, and it enters the dead letter block at most once.
C16_NoAutomaticRetry ==
    \A r \in Slots :
        Accepted(r)
        => /\ req[r].txCount = 1
           /\ TopicCount(r, USER_FOLLOWED) + TopicCount(r, USER_UNFOLLOWED) <= 1
           /\ req[r].dlqCount <= 1
           /\ Len(published[r]) <= 1
           /\ req[r].error # ""
                 => (req[r].pc \in {"deadLetter", "done"} /\ req[r].pending = {})

\* C16 witness: a follow of two existing users without an edge ran alone,
\* failed in the store and is over: the transaction was called once and the
\* edge is still missing.
C16_Witness ==
    \E r \in Slots :
        /\ req[r].op = "follow" /\ RanAlone(r) /\ Done(r)
        /\ ParticipantsExist(r) /\ EdgeIn(req[r].snap, r) = {}
        /\ req[r].error = "store error" /\ req[r].txCount = 1
        /\ EdgeIn(Follows, r) = {}


\* The four ends of a background phase
EndedInSuccess(r) ==
    /\ req[r].committed /\ req[r].result = "success" /\ req[r].dlqCount = 0
    /\ TopicCount(r, USER_FOLLOWED) + TopicCount(r, USER_UNFOLLOWED) = 1

EndedInNoOp(r) ==
    /\ req[r].committed /\ req[r].result = "alreadyExists"
    /\ req[r].dlqCount = 0 /\ published[r] = <<>>

EndedInDeadLetter(r) ==
    /\ req[r].dlqCount = 1 /\ Len(published[r]) = 1
    /\ published[r][1].topic = DEAD_LETTER_QUEUE

EndedInDeadLetterFailure(r) ==
    /\ req[r].dlqCount = 1 /\ published[r] = <<>>

\* The background phase of the request in slot r is over, in exactly one of
\* the four ends
Ended(r) ==
    /\ Done(r)
    /\ Cardinality({e \in {"success", "noOp", "deadLetter", "deadLetterFailure"} :
           \/ e = "success" /\ EndedInSuccess(r)
           \/ e = "noOp" /\ EndedInNoOp(r)
           \/ e = "deadLetter" /\ EndedInDeadLetter(r)
           \/ e = "deadLetterFailure" /\ EndedInDeadLetterFailure(r)}) = 1

\* C17: when every call to the store and to the broker eventually returns or
\* fails, there comes a moment from which on every accepted follow /
\* unfollow request is over, in exactly one of the four ends: success,
\* idempotent no-op, dead letter message published, dead letter failure
\* logged.  (A finished request stays finished and the requests are finitely
\* many, so this says that each accepted request eventually ends.)
C17_BackgroundPhaseTerminates ==
    <>[](\A r \in Slots : Accepted(r) => Ended(r))

\* C17 witness: two accepted requests are over, one with its dead letter
\* message published, the other with the dead letter publish rejected.
C17_Witness ==
    \E r, q \in Slots :
        /\ Accepted(r) /\ Done(r) /\ EndedInDeadLetter(r)
        /\ Accepted(q) /\ Done(q) /\ EndedInDeadLetterFailure(q)


\* C18: in every reachable state the Follows table holds at most one row per
\* ordered pair (followerId, followingId), and at most one open transaction
\* has an insert of a given pair pending.
C18_OneRowPerOrderedPair ==
    /\ \A f, g \in Follows :
          (f.followerId = g.followerId /\ f.followingId = g.followingId) => f = g
    /\ \A r, q \in Slots :
          (/\ r # q
           /\ \E w \in req[r].pending : w.kind = "create"
           /\ \E w \in req[q].pending : w.kind = "create")
          => ~SamePair(r, q)

\* C18 witness: two follows of the same pair both found no edge; one
\* committed its row, the other's insert then met the key; the store clock
\* has moved and the table has one row of the pair.
C18_Witness ==
    \E r, q \in Slots :
        /\ r # q /\ req[r].op = "follow" /\ req[q].op = "follow"
        /\ SamePair(r, q)
        /\ req[r].committed /\ req[r].result = "success"
        /\ req[q].conflict
        /\ now = 1
        /\ Cardinality(EdgeIn(Follows, r)) = 1


\* The list request was answered 200
ListAnswered ==
    /\ list.pc = "done" /\ Len(list.response) = 1
    /\ list.response[1].status = 200

\* The number of users in the 200 response
Returned ==
    IF list.op = "getFollowers" THEN Len(list.response[1].body.followers)
    ELSE Len(list.response[1].body.following)

\* C19 (as claimed): the total of a 200 response of getFollowers /
\* getFollowing is the number of matching rows of the store state the page was
\* read from, and hasMore is computed against that number, also when follow /
\* unfollow transactions commit while the request is served.
C19_CountAndPageFromOneSnapshot ==
    ListAnswered
    => /\ list.response[1].body.pagination.total = list.matching
       /\ list.response[1].body.pagination.hasMore
             = (list.skip + Returned < list.matching)

\* The rows of the pages fetched, in the order fetched
RECURSIVE Flatten(_)
Flatten(ss) == IF ss = <<>> THEN <<>> ELSE Head(ss) \o Flatten(Tail(ss))

\* C20 (as claimed): when the pages 1..ceil(N/L) of a listing with N >= 1
\* rows have been fetched with no write in between, the page sizes sum to N,
\* no row is on two pages and every row is on one, also when rows have the
\* same createdAt.
C20_PagesCoverEveryRowOnce ==
    LET rows == Matching(Follows, list.op, list.id)
        N == Cardinality(rows)
        fetched == Flatten(list.pages)
    IN
    (/\ N >= 1 /\ list.pages # <<>>
     /\ (Len(list.pages) - 1) * list.take < N
     /\ N <= Len(list.pages) * list.take)
    => /\ Len(fetched) = N
       /\ \A i, j \in 1..Len(fetched) : i # j => fetched[i] # fetched[j]
       /\ {fetched[i] : i \in 1..Len(fetched)} = rows


\* The users of a 200 response body of the list request op
usersOf(op, body) == IF op = "getFollowers" THEN body.followers ELSE body.following

\* The user a row shows in the list request op
shownUser(op, row) ==
    IF op = "getFollowers" THEN userOf(row.followerId) ELSE userOf(row.followingId)

\* C21: a list request that reaches the store has page >= 1, take >= 1 and
\* skip = (page - 1) * take; the count statement sets totalCount to the
\* number of matching rows of the table it reads; the findMany statement
\* answers 200 with the users of the rows skip+1 .. skip+take of the matching
\* rows in an order by createdAt descending, the page and limit parsed, total
\* = totalCount, and hasMore true exactly when skip + returned < total; so
\* when total is the number of rows findMany matched, hasMore is false
\* exactly on the last page and beyond, and a listing without rows is the
\* empty list with total 0 and hasMore false.
C21_PageTotalAndHasMore ==
    [][/\ list'.pc \in {"count", "findMany"}
          => (/\ list'.page >= 1 /\ list'.take >= 1
              /\ list'.skip = (list'.page - 1) * list'.take)
       /\ (list.pc = "count" /\ list'.pc = "findMany")
          => list'.totalCount = Cardinality(Matching(Follows, list.op, list.id))
       /\ (list.pc = "findMany" /\ list'.pc = "done" /\ list'.response[1].status = 200)
          => LET body == list'.response[1].body
                 users == usersOf(list.op, body)
                 rows == Matching(Follows, list.op, list.id)
                 N == Cardinality(rows)
                 offset == (list.page - 1) * list.take
             IN /\ body.pagination.page = list.page
                /\ body.pagination.limit = list.take
                /\ body.pagination.total = list.totalCount
                /\ Len(users) = IF N - offset <= 0 THEN 0
                                ELSE IF N - offset < list.take THEN N - offset
                                ELSE list.take
                /\ \E s \in OrderByCreatedAtDesc(rows) :
                      \A i \in 1..Len(users) : users[i] = shownUser(list.op, s[offset + i])
                /\ body.pagination.hasMore = (offset + Len(users) < body.pagination.total)
                /\ body.pagination.total = N
                      => (body.pagination.hasMore <=> offset + list.take < N)
                /\ (body.pagination.total = N /\ N = 0)
                      => (users = <<>> /\ ~body.pagination.hasMore)]_vars

\* C21 witness: the last page of a listing of two rows, one row a page, was
\* answered with one user, total 2 and hasMore false.
C21_Witness ==
    /\ ListAnswered /\ list.page = 2 /\ list.take = 1
    /\ list.response[1].body.pagination.total = 2
    /\ Returned = 1
    /\ ~list.response[1].body.pagination.hasMore


\* C22: in the rows of the pages 1, 2, ... fetched of a listing, page after
\* page, a row created later than another comes before it: createdAt never
\* increases along a page or from a page to the next.
C22_MostRecentFirst ==
    LET fetched == Flatten(list.pages)
    IN \A i, j \in 1..Len(fetched) :
          fetched[i].createdAt > fetched[j].createdAt => i < j

\* C22 witness: two pages of one row each were fetched, the row of the first
\* page created later than the row of the second.
C22_Witness ==
    /\ Len(list.pages) = 2
    /\ Len(list.pages[1]) = 1 /\ Len(list.pages[2]) = 1
    /\ list.pages[1][1].createdAt > list.pages[2][1].createdAt

\* A step of createUser that changed the response or the table
CreateUserStep ==
    /\ usr'.res.op = "createUser"
    /\ <<usr.res, User>>' # <<usr.res, User>>

\* The unique columns of model User hold distinct values in distinct rows
UniqueUsers ==
    \A u, v \in User :
        (u.id = v.id \/ u.authUserId = v.authUserId \/ u.username = v.username)
            => u = v

\* C23: a createUser whose authUserId or username is taken is answered 400
\* 'User already exists', no other failure of a create is answered so (they
\* are answered 500 'Server error'), a failed create leaves the User table
\* as it was, and no two rows ever share an authUserId or a username.
C23_ConflictOnCreate ==
    /\ [][CreateUserStep =>
            LET r == usr'.res
                body == CHOOSE b \in r.body : TRUE
                taken == \E u \in User : u.authUserId = body.authUserId
                                          \/ u.username = body.username
                wellFormed == body.authUserId # "" /\ body.username # ""
            IN /\ (wellFormed /\ taken /\ r.code # "P1001")
                     => (r.status = 400 /\ r.error = "User already exists")
               /\ r.status = 400 => (wellFormed /\ taken)
               /\ r.error = "User already exists" <=> r.status = 400
               /\ (r.status # 201 /\ r.status # 400)
                     => (r.status = 500 /\ r.error = "Server error")
               /\ r.status # 201 => User' = User
               /\ r.status = 201 => (~taken /\ Cardinality(User') = Cardinality(User) + 1)]_vars
    /\ []UniqueUsers

C23_Witness ==
    /\ usr.res.op = "createUser"
    /\ usr.res.status = 400
    /\ \E b \in usr.res.body : b.username = "n1" /\ b.authUserId = "a3"
    /\ \A u \in User : u.authUserId # "a3"

\* The last user request found no row under its id
UserAbsent ==
    /\ usr.res.op \in {"getUserById", "updateUser", "deleteUser"}
    /\ usr.res.code \in {"User not found", "P2025"}

\* C24: a read, update or delete of a user id that has no row is answered
\* 404 'User not found', and update and delete then never call the store's
\* update or delete.
C24_NotFoundChecksExistenceFirst ==
    UserAbsent =>
        /\ usr.res.status = 404
        /\ usr.res.error = "User not found"
        /\ \A i \in 1..Len(usr.res.calls) : usr.res.calls[i] \notin {"update", "delete"}

\* The first n calls of the operation all failed with a transient error
AllTransient(n) ==
    \A k \in 1..n :
        /\ usr.retry.operation[k].settled = "rejected"
        /\ usr.retry.operation[k].code \in transientErrors

\* What executeWithRetry has done so far agrees with the claim
RetryOutcome ==
    LET y == usr.retry
        last == y.operation[y.calls]
    IN /\ y.calls <= y.maxRetries
       /\ y.pc # "idle" => AllTransient(y.calls - 1)
       /\ y.pc = "loop" => AllTransient(y.calls)
       /\ y.pc = "returned" =>
             /\ y.calls >= 1
             /\ last.settled = "resolved"
             /\ y.returned = {last}
       /\ y.pc = "thrown" =>
             \/ /\ y.calls >= 1
                /\ last.settled = "rejected"
                /\ last.code \notin transientErrors
                /\ y.thrown = {last}
             \/ /\ y.calls = y.maxRetries
                /\ AllTransient(y.calls)
                /\ y.thrown = IF y.calls = 0 THEN {} ELSE {last}

\* C25: executeWithRetry calls operation at most maxRetries times and ends:
\* it returns what the first successful call returned, rethrows an error
\* that is not transient after that one call, and when every call failed
\* with a transient error throws the last one after exactly maxRetries calls.
C25_RetryBoundedAndTerminates ==
    /\ []RetryOutcome
    /\ <>[](usr.retry.pc # "loop")

C25_Witness ==
    /\ usr.retry.pc = "thrown"
    /\ usr.retry.maxRetries = 3
    /\ usr.retry.calls = 3
    /\ \E e \in usr.retry.thrown : e.code = "P2034"
    /\ usr.retry.operation[1].code = "P1001"

\* The accepted requests for the ordered pair (a, b)
RequestsOn(a, b) ==
    {r \in Slots : Accepted(r) /\ req[r].followerId = a /\ req[r].followingId = b}

\* The ordered pairs some request was accepted for
RequestedPairs ==
    {<<req[r].followerId, req[r].followingId>> : r \in {q \in Slots : Accepted(q)}}

\* C26: follow requests for one ordered pair, with no unfollow for the pair
\* among them: at most one of them inserts the edge (commits with result
\* success, the only way to the publish of USER_FOLLOWED), and at most one
\* USER_FOLLOWED message is published by all of them together.
C26_ConcurrentFollowsOneEvent ==
    \A p \in RequestedPairs :
        LET S == RequestsOn(p[1], p[2])
        IN (\A r \in S : req[r].op = "follow")
           => /\ Cardinality({r \in S : req[r].committed
                                        /\ req[r].result = "success"}) <= 1
              /\ Cardinality({r \in S : TopicCount(r, USER_FOLLOWED) > 0}) <= 1
              /\ \A r \in S : TopicCount(r, USER_FOLLOWED) <= 1

C26_Witness ==
    \E r, q \in Slots :
        /\ r # q /\ SamePair(r, q)
        /\ req[r].op = "follow" /\ req[q].op = "follow"
        /\ Done(r) /\ Done(q)
        /\ req[r].committed /\ req[r].result = "success"
        /\ req[q].conflict
        /\ Cardinality(EdgeIn(Follows, r)) = 1

\* C27: two unfollow requests for one edge, with no follow for the pair
\* that could insert it anew: at most one of them deletes it,
\* at most one USER_UNFOLLOWED message is published, a request that did not
\* delete it took the catch block once, whatever it published is a dead
\* letter message with operation "unfollow", and each was answered once.
C27_ConcurrentUnfollowsDeleteOnce ==
    \A r, q \in Slots :
        (r # q /\ SamePair(r, q) /\ Accepted(r) /\ Accepted(q)
            /\ \A x \in RequestsOn(req[r].followerId, req[r].followingId) :
                  req[x].op = "unfollow")
        => /\ ~(req[r].committed /\ req[r].result = "success"
                /\ req[q].committed /\ req[q].result = "success")
           /\ TopicCount(r, USER_UNFOLLOWED) + TopicCount(q, USER_UNFOLLOWED) <= 1
           /\ (Done(r) /\ Done(q) /\ req[r].committed /\ req[r].result = "success")
                 => /\ EdgeIn(Follows, r) = {}
                    /\ ~req[q].committed
                    /\ req[q].error \in {"Relationship does not exist",
                                         "P2025 Record to delete does not exist",
                                         "store error"}
                    /\ req[q].dlqCount = 1
                    /\ \A i \in 1..Len(published[q]) :
                          /\ published[q][i].topic = DEAD_LETTER_QUEUE
                          /\ published[q][i].message.operation = "unfollow"
                    /\ Len(res[r]) = 1 /\ Len(res[q]) = 1
                    /\ res[q][1].status = 202

C27_Witness ==
    \E r, q \in Slots :
        /\ r # q /\ SamePair(r, q)
        /\ req[r].op = "unfollow" /\ req[q].op = "unfollow"
        /\ Done(r) /\ Done(q)
        /\ req[r].committed /\ req[r].result = "success"
        /\ req[q].error = "P2025 Record to delete does not exist"
        /\ Len(published[q]) = 1
        /\ EdgeIn(Follows, r) = {}

\* The number of messages on the topic that the requests in slots 1..n
\* published for the ordered pair (a, b)
RECURSIVE EventCount(_, _, _, _)
EventCount(n, a, b, topic) ==
    IF n = 0 THEN 0
    ELSE EventCount(n - 1, a, b, topic)
         + (IF n \in RequestsOn(a, b) THEN TopicCount(n, topic) ELSE 0)

\* C28: from the empty Follows table, once no background phase is in flight
\* and neither the store nor the broker has failed, for every ordered pair
\* the USER_FOLLOWED messages minus the USER_UNFOLLOWED messages are as many
\* as the edges of the pair in the store.
C28_EventsMatchEdges ==
    (\A r \in Slots : Accepted(r) => (Done(r) /\ Healthy(r)))
    => \A p \in RequestedPairs :
          EventCount(MaxReq, p[1], p[2], USER_FOLLOWED)
              - EventCount(MaxReq, p[1], p[2], USER_UNFOLLOWED)
          = Cardinality({f \in Follows : f.followerId = p[1]
                                         /\ f.followingId = p[2]})

\* C29: both ends of every Follows row are rows of User, whatever the
\* interleaving of follow, unfollow, createUser and deleteUser; a follow
\* whose participant was deleted after its lookups inserts nothing (the
\* insert fails with P2025, which only a follow that found both users at
\* its lookups reaches).
C29_ReferentialIntegrity ==
    /\ \A f \in Follows :
          /\ userFindUnique(f.followerId) # {}
          /\ userFindUnique(f.followingId) # {}
    /\ \A r \in Slots : \A w \in req[r].pending :
          /\ userFindUnique(w.row.followerId) # {}
          /\ userFindUnique(w.row.followingId) # {}

C29_Witness ==
    /\ req[1].op = "follow" /\ Done(1)
    /\ req[1].error = "P2025 Required record not found"
    /\ userFindUnique(req[1].followerId) = {}
    /\ EdgeIn(Follows, 1) = {}
    /\ usr.res.op = "deleteUser" /\ usr.res.status = 204

\* The rows of User with the authUserId
RowsOf(authId) == {u \in User : u.authUserId = authId}

====
